---------------------------- MODULE Spec2Model ----------------------------
(***************************************************************************)
(* Model of nmusso/pitch-shifter: KeyDetectorService (tuning-reference and *)
(* key detection over a decoded audio buffer).                             *)
(*                                                                         *)
(* Numbers.  The code computes in IEEE doubles; the model computes in      *)
(* exact arithmetic over integers:                                         *)
(*   - a vector of numbers is a record [num, den, nan]: element i has the  *)
(*     value num[i]/den, or is NaN/undefined when i \in nan;               *)
(*   - a correlation is NaN, -Infinity, or the real n/sqrt(dx*dy) kept as  *)
(*     the record [kind |-> "real", n, dx, dy];                            *)
(*   - products that exceed 31 bits are formed over base-2^15 limbs.       *)
(* Rounding error of the floating-point evaluation is not modelled.        *)
(***************************************************************************)
EXTENDS Integers, Sequences, FiniteSets, TLC

(***************************************************************************)
(* Program constants                                                       *)
(***************************************************************************)
\* Krumhansl-Schmuckler profiles, in hundredths
MAJOR_PROFILE == <<635, 223, 348, 233, 438, 409, 252, 519, 239, 366, 229, 288>>
MINOR_PROFILE == <<633, 268, 352, 538, 260, 353, 254, 475, 398, 269, 334, 317>>
ProfileDen == 10 * 10

KEYS == <<"C", "C#", "D", "D#", "E", "F", "F#", "G", "G#", "A", "A#", "B">>

bufferSize == 4096          \* detectKey frame length
hopSize == 8192             \* detectKey hop
MaxSeconds == 30            \* detectKey: Math.min(30, buffer.duration)
NumPitchClasses == 12       \* the literal 12 of detectKey and correlate

(***************************************************************************)
(* Arithmetic helpers                                                      *)
(***************************************************************************)
Min(a, b) == IF a <= b THEN a ELSE b
Max(a, b) == IF a >= b THEN a ELSE b

RECURSIVE SumSeq(_)
SumSeq(s) == IF s = <<>> THEN 0 ELSE Head(s) + SumSeq(Tail(s))

\* JavaScript's % : the remainder has the sign of the dividend
JsRem(a, b) == IF a >= 0 THEN a % b ELSE -((-a) % b)

\* Natural numbers beyond 31 bits: little-endian limbs of base 2^15
Base == 2^15

RECURSIVE ToBig(_)
ToBig(n) == IF n = 0 THEN <<>> ELSE <<n % Base>> \o ToBig(n \div Base)

RECURSIVE BigAddC(_, _, _)
BigAddC(a, b, c) ==
    IF a = <<>> /\ b = <<>>
    THEN (IF c = 0 THEN <<>> ELSE <<c>>)
    ELSE LET x == IF a = <<>> THEN 0 ELSE Head(a)
             y == IF b = <<>> THEN 0 ELSE Head(b)
             s == x + y + c
         IN  <<s % Base>> \o BigAddC(IF a = <<>> THEN <<>> ELSE Tail(a),
                                     IF b = <<>> THEN <<>> ELSE Tail(b),
                                     s \div Base)

RECURSIVE BigMulLimb(_, _, _)
BigMulLimb(a, d, c) ==
    IF a = <<>>
    THEN (IF c = 0 THEN <<>> ELSE <<c>>)
    ELSE LET p == Head(a) * d + c
         IN  <<p % Base>> \o BigMulLimb(Tail(a), d, p \div Base)

RECURSIVE BigMul(_, _)
BigMul(a, b) ==
    IF a = <<>> \/ b = <<>> THEN <<>>
    ELSE BigAddC(BigMulLimb(a, Head(b), 0), <<0>> \o BigMul(a, Tail(b)), 0)

RECURSIVE BigTrim(_)
BigTrim(a) ==
    IF a = <<>> THEN <<>>
    ELSE IF a[Len(a)] = 0 THEN BigTrim(SubSeq(a, 1, Len(a) - 1)) ELSE a

RECURSIVE BigCmpSame(_, _, _)
\* compares two trimmed numbers of equal length from the top limb down
BigCmpSame(a, b, k) ==
    IF k = 0 THEN 0
    ELSE IF a[k] > b[k] THEN 1
    ELSE IF a[k] < b[k] THEN -1
    ELSE BigCmpSame(a, b, k - 1)

\* -1, 0, 1 as a < b, a = b, a > b
BigCmp(a0, b0) ==
    LET a == BigTrim(a0)
        b == BigTrim(b0)
    IN  IF Len(a) > Len(b) THEN 1
        ELSE IF Len(a) < Len(b) THEN -1
        ELSE BigCmpSame(a, b, Len(a))

(***************************************************************************)
(* IEEE numbers as the correlation code produces and compares them         *)
(***************************************************************************)
NaN == [kind |-> "nan"]
NegInfinity == [kind |-> "neginf"]
Real(n, dx, dy) == [kind |-> "real", n |-> n, dx |-> dx, dy |-> dy]

Abs(n) == IF n < 0 THEN -n ELSE n

\* n^2 * dx * dy of the other side: the cross product that orders two
\* quotients n/sqrt(dx*dy) of equal sign
Cross(a, b) ==
    BigMul(BigMul(ToBig(Abs(a.n)), ToBig(Abs(a.n))),
           BigMul(ToBig(b.dx), ToBig(b.dy)))

\* a.n/sqrt(a.dx*a.dy) compared with b.n/sqrt(b.dx*b.dy): -1, 0, 1
RealCmp(a, b) ==
    IF a.n >= 0 /\ b.n < 0 THEN 1
    ELSE IF a.n < 0 /\ b.n >= 0 THEN -1
    ELSE IF a.dx = b.dx /\ a.dy = b.dy
         THEN (IF a.n > b.n THEN 1 ELSE IF a.n < b.n THEN -1 ELSE 0)
    ELSE IF a.n >= 0 THEN BigCmp(Cross(a, b), Cross(b, a))
    ELSE BigCmp(Cross(b, a), Cross(a, b))

\* the > operator of JavaScript on these numbers: false when either is NaN
Greater(a, b) ==
    IF a.kind = "nan" \/ b.kind = "nan" THEN FALSE
    ELSE IF a.kind = "neginf" THEN FALSE
    ELSE IF b.kind = "neginf" THEN TRUE
    ELSE RealCmp(a, b) = 1

\* the === operator of JavaScript on these numbers: NaN equals nothing
NumEq(a, b) ==
    IF a.kind = "nan" \/ b.kind = "nan" THEN FALSE
    ELSE IF a.kind = "neginf" \/ b.kind = "neginf" THEN a.kind = b.kind
    ELSE RealCmp(a, b) = 0

\* the number is exactly 1.0
IsOne(a) ==
    /\ a.kind = "real"
    /\ a.n > 0
    /\ BigCmp(BigMul(ToBig(a.n), ToBig(a.n)),
              BigMul(ToBig(a.dx), ToBig(a.dy))) = 0

(***************************************************************************)
(* Vectors of numbers                                                      *)
(***************************************************************************)
Vec(num, den) == [num |-> num, den |-> den, nan |-> {}]
\* element k (from 1) is a number: inside the array and not NaN/undefined
Defined(v, k) == k \in 1..Len(v.num) /\ k \notin v.nan

(***************************************************************************)
(* rotate(arr, n): rotated[i] = arr[(i - n + len) % len]                   *)
(***************************************************************************)
\* rotate without the "+ len" that keeps the index non-negative
RotateIndexNoWrap(i, n, len) == JsRem(i - n, len)

RotateIndex(i, n, len) == JsRem(i - n + len, len)

\* an index outside 0..len-1 reads undefined
Rotate(arr, n) ==
    LET len == Len(arr.num)
        src(i) == RotateIndex(i, n, len)
        ok(i) == src(i) \in 0..(len - 1) /\ (src(i) + 1) \notin arr.nan
    IN  [num |-> [k \in 1..len |-> IF ok(k - 1) THEN arr.num[src(k - 1) + 1] ELSE 0],
         den |-> arr.den,
         nan |-> {k \in 1..len : ~ok(k - 1)}]

(***************************************************************************)
(* correlate(chroma, profile): Pearson correlation over 12 elements.       *)
(* With meanX = sum/12, the centred element chroma[i] - meanX equals       *)
(* (12*num[i] - sum(num)) / (12*den); the factors 12*den of the two        *)
(* vectors cancel between sumXy and sqrt(sumXx*sumYy).                     *)
(***************************************************************************)
\* element k of the result is 12*den*(v[k] - mean(v))
Centred(v) ==
    LET sum == SumSeq(v.num)
    IN  [k \in 1..NumPitchClasses |-> NumPitchClasses * v.num[k] - sum]

RECURSIVE SumProd(_, _, _)
SumProd(f, g, k) == IF k = 0 THEN 0 ELSE f[k] * g[k] + SumProd(f, g, k - 1)

\* correlate with the profile left uncentred
CorrelateRawProfile(chroma, profile) ==
    IF \E k \in 1..NumPitchClasses : ~Defined(chroma, k) \/ ~Defined(profile, k)
    THEN NaN
    ELSE LET x == Centred(chroma)
             y == [k \in 1..NumPitchClasses |-> NumPitchClasses * profile.num[k]]
             sumXx == SumProd(x, x, NumPitchClasses)
             sumYy == SumProd(y, y, NumPitchClasses)
             sumXy == SumProd(x, y, NumPitchClasses)
         IN  IF sumXx = 0 \/ sumYy = 0
             THEN NaN
             ELSE Real(sumXy, sumXx, sumYy)

Correlate(chroma, profile) ==
    IF \E k \in 1..NumPitchClasses : ~Defined(chroma, k) \/ ~Defined(profile, k)
    THEN NaN                       \* a NaN or undefined element
    ELSE LET x == Centred(chroma)
             y == Centred(profile)
             sumXx == SumProd(x, x, NumPitchClasses)
             sumYy == SumProd(y, y, NumPitchClasses)
             sumXy == SumProd(x, y, NumPitchClasses)
         IN  IF sumXx = 0 \/ sumYy = 0
             THEN NaN                  \* 0 / Math.sqrt(0)
             ELSE Real(sumXy, sumXx, sumYy)

(***************************************************************************)
(* detectKey: the 24 candidates and the selection loops                    *)
(***************************************************************************)
MajorVec == Vec(MAJOR_PROFILE, ProfileDen)
MinorVec == Vec(MINOR_PROFILE, ProfileDen)

\* the major loop runs first, then the minor loop, i = 0..11 in each
Candidates ==
    [j \in 1..(2 * Len(KEYS)) |->
        IF j <= Len(KEYS) THEN [mode |-> "Major", i |-> j - 1]
        ELSE [mode |-> "Minor", i |-> j - Len(KEYS) - 1]]

\* the two loops with their profiles exchanged
ProfileOfSwapped(mode) == IF mode = "Major" THEN MinorVec ELSE MajorVec

ProfileOf(mode) == IF mode = "Major" THEN MajorVec ELSE MinorVec

\* this.rotate(this.MAJOR_PROFILE, i) / this.rotate(this.MINOR_PROFILE, i)
RotatedProfiles ==
    [j \in 1..Len(Candidates) |->
        Rotate(ProfileOf(Candidates[j].mode), Candidates[j].i)]

Score(avgChroma, j) == Correlate(avgChroma, RotatedProfiles[j])

KeyName(c) == KEYS[c.i + 1] \o " " \o c.mode

\* a selection that also replaces the best key on an equal score
BetterOrEqual(correlation, bestCorrelation) ==
    Greater(correlation, bestCorrelation) \/ NumEq(correlation, bestCorrelation)

\* if (correlation > bestCorrelation)
Better(correlation, bestCorrelation) == Greater(correlation, bestCorrelation)

\* the two selection loops, over the correlations in candidate order
RECURSIVE SelectFrom(_, _, _)
SelectFrom(correlations, j, best) ==
    IF j > Len(correlations) THEN best
    ELSE SelectFrom(correlations, j + 1,
             IF Better(correlations[j], best.bestCorrelation)
             THEN [bestCorrelation |-> correlations[j],
                   bestKey |-> KeyName(Candidates[j])]
             ELSE best)

Scores(avgChroma) == [j \in 1..Len(Candidates) |-> Score(avgChroma, j)]

SelectKey(avgChroma) ==
    SelectFrom(Scores(avgChroma), 1,
               [bestCorrelation |-> NegInfinity, bestKey |-> ""])

\* avgChroma = Array.from(totalChroma).map(val => val / frames)
AvgChroma(totalChroma, frames) ==
    [num |-> totalChroma.num, den |-> totalChroma.den * frames,
     nan |-> totalChroma.nan]

(***************************************************************************)
(* Buffers.  A buffer is its length, its sample rate and, in place of its  *)
(* samples, what the analysis library returns for its windows: chroma[j]   *)
(* for the frames of detectKey and spectrum[j] for the chunks of           *)
(* detectTuningReference.  An outcome is                                   *)
(*   [kind |-> "throw"]   Meyda.extract throws                             *)
(*   [kind |-> "null"]    it returns a falsy value                         *)
(*   [kind |-> "array"]   it returns an array (possibly empty, possibly    *)
(*                        holding undefined/NaN elements)                  *)
(***************************************************************************)
Throw == [kind |-> "throw"]
Null == [kind |-> "null"]
Array(v) == [kind |-> "array", v |-> v]

ChromaDen == ProfileDen
ZeroChroma == Vec([k \in 1..NumPitchClasses |-> 0], ChromaDen)
MajorChroma == Vec(MAJOR_PROFILE, ChromaDen)
TritoneChroma ==
    Vec([k \in 1..NumPitchClasses |-> IF k \in {1, 7} THEN MAJOR_PROFILE[1] ELSE 0],
        ChromaDen)
MinorChroma == Rotate(Vec(MINOR_PROFILE, ChromaDen), 9)
EmptyArray == [num |-> <<>>, den |-> ChromaDen, nan |-> {}]
UndefChroma ==
    [num |-> [k \in 1..NumPitchClasses |-> 0], den |-> ChromaDen,
     nan |-> 1..NumPitchClasses]

\* what the chroma primitive may return for a frame of zeros
SilentChromaOutcomes == {Throw, Null, Array(ZeroChroma), Array(UndefChroma)}

ChromaOutcomes ==
    {Throw, Null, Array(EmptyArray), Array(ZeroChroma), Array(MajorChroma),
     Array(TritoneChroma), Array(MinorChroma)}

Duration(b) == [num |-> b.length, den |-> b.sampleRate]   \* seconds

\* Math.min(30, buffer.duration) * sampleRate, in samples
AnalyzeSamples(b) == Min(MaxSeconds * b.sampleRate, b.length)

\* a window taken from the start of the buffer
StartSampleUncentred(b) == 0

\* Math.floor((buffer.duration / 2 - durationToAnalyze / 2) * sampleRate)
StartSample(b) == (b.length - AnalyzeSamples(b)) \div 2

SafeStart(b) == Max(0, StartSample(b))

EndSample(b) == Min(SafeStart(b) + AnalyzeSamples(b), b.length)

\* channelData.slice(start, start + n).length
SliceLength(b, start, n) == Max(0, Min(start + n, b.length) - Min(start, b.length))

\* Meyda.extract('chroma', chunk) on the frame starting at sample start
\* (a window the buffer does not hold in full is rejected by the library)
ExtractChroma(b, start) ==
    LET j == ((start - SafeStart(b)) \div hopSize) + 1
    IN  IF j \in DOMAIN b.chroma THEN b.chroma[j] ELSE Throw


(***************************************************************************)
(* detectTuningReference: constants and the per-chunk computation          *)
(***************************************************************************)
fftSize == 4096
chunksToAnalyze == 50
LowCutBin == 10             \* for (let k = 10; ...
A4Hz == 440
A4Midi == 69
SemitonesPerOctave == 12    \* 12 * Math.log2(freq / 440)
CentsPerSemitone == 100     \* (midi - nearestMidi) * 100
CentsPerOctave == 1200      \* Math.pow(2, avgDeviation / 1200)

\* spectrum magnitudes are integers in hundredths; 0.1 is 10 hundredths
MagDen == 10 * 10
SilenceThreshold == MagDen \div 10

\* a spectrum: len elements; bins gives the nonzero ones, the rest are 0
Spectrum(len, bins) == [len |-> len, bins |-> bins]
SpectrumAt(spectrum, k) ==
    IF k \in DOMAIN spectrum.bins THEN spectrum.bins[k] ELSE 0

SetMax(S) == CHOOSE x \in S : \A y \in S : y <= x
SetMin(S) == CHOOSE x \in S : \A y \in S : x <= y

\* for (let k = 10; k < spectrum.length / 2; k++)
PeakSearchBins(spectrum) == {k \in LowCutBin..spectrum.len : 2 * k < spectrum.len}

\* the peak loop: maxVal and maxBin start at -1, a bin replaces the maximum
\* only when strictly greater, so the first bin of the maximum is kept
FindPeak(spectrum) ==
    LET searched == PeakSearchBins(spectrum)
        maxVal == SetMax({-MagDen} \cup {SpectrumAt(spectrum, k) : k \in searched})
    IN  IF maxVal > -MagDen
        THEN [maxVal |-> maxVal,
              maxBin |-> SetMin({k \in searched : SpectrumAt(spectrum, k) = maxVal})]
        ELSE [maxVal |-> -MagDen, maxBin |-> -1]

\* if (maxVal > 0.1)
AboveSilence(maxVal) == maxVal > SilenceThreshold

(***************************************************************************)
(* Math.log2 in fixed point: Log2Fix(num, den) is log2(num/den) in units   *)
(* of 2^-LogBits, by repeated squaring of the mantissa held to 14 bits.    *)
(***************************************************************************)
LogBits == 12
LogOne == 2^LogBits
LogScale == 2^14

RECURSIVE Log2Norm(_, _, _)
\* brings den <= num < 2*den, counting the octaves in e
Log2Norm(num, den, e) ==
    IF num >= 2 * den THEN Log2Norm(num, 2 * den, e + 1)
    ELSE IF num < den THEN Log2Norm(2 * num, den, e - 1)
    ELSE [e |-> e, num |-> num, den |-> den]

RECURSIVE Log2Shrink(_, _)
Log2Shrink(num, den) ==
    IF den >= LogScale * 2 THEN Log2Shrink(num \div 2, den \div 2)
    ELSE [num |-> num, den |-> den]

RECURSIVE Log2Frac(_, _, _)
Log2Frac(x, k, acc) ==
    IF k = 0 THEN acc
    ELSE LET y == (x * x) \div LogScale
         IN  IF y >= 2 * LogScale
             THEN Log2Frac(y \div 2, k - 1, 2 * acc + 1)
             ELSE Log2Frac(y, k - 1, 2 * acc)

Log2Fix(num, den) ==
    LET n == Log2Norm(num, den, 0)
        m == Log2Shrink(n.num, n.den)
        x == Max(LogScale, (m.num * LogScale) \div m.den)
    IN  n.e * LogOne + Log2Frac(x, LogBits, 0)

\* rounding down in place of rounding to nearest
RoundFixDown(x) == x \div LogOne

\* Math.round on a number held in units of 2^-LogBits: floor(x + 0.5)
RoundFix(x) == (x + LogOne \div 2) \div LogOne

\* const midi = 69 + 12 * Math.log2(freq / 440), freq = maxBin * binSize,
\* binSize = sampleRate / fftSize; in units of 2^-LogBits
Midi(maxBin, sampleRate) ==
    A4Midi * LogOne + SemitonesPerOctave * Log2Fix(maxBin * sampleRate, fftSize * A4Hz)

\* deviation = (midi - Math.round(midi)) * 100, in cents * 2^LogBits
Deviation(maxBin, sampleRate) ==
    LET midi == Midi(maxBin, sampleRate)
        nearestMidi == RoundFix(midi)
    IN  (midi - nearestMidi * LogOne) * CentsPerSemitone

\* results of detectTuningReference
Hz(v) == [kind |-> "hz", v |-> v]
NaNHz == [kind |-> "nan"]
NoHz == [kind |-> "none"]

\* the avgDeviation, times validChunks * 2^LogBits, at which
\* 440 * 2^(avgDeviation/1200) reaches r - 0.5
RefThreshold(r, validChunks) ==
    CentsPerOctave * validChunks * Log2Fix(2 * r - 1, 2 * A4Hz)

\* Math.round(440 * Math.pow(2, (total / validChunks) / 1200)); 0/0 is NaN
RoundedRef(totalCentsDeviation, validChunks) ==
    IF validChunks = 0 THEN NaNHz
    ELSE Hz(CHOOSE r \in (A4Hz \div 2 + 1)..(2 * A4Hz - 1) :
               /\ RefThreshold(r, validChunks) <= totalCentsDeviation
               /\ totalCentsDeviation < RefThreshold(r + 1, validChunks))

\* the default return never taken
NeverNoValidChunks(validChunks) == FALSE

\* if (validChunks === 0) return 440
NoValidChunks(validChunks) == validChunks = 0

\* const step = Math.floor(channelData.length / chunksToAnalyze)
Step(b) == b.length \div chunksToAnalyze

\* Meyda.extract('amplitudeSpectrum', chunk) on chunk number c (from 0)
\* (a window the buffer does not hold in full is rejected by the library)
ExtractSpectrum(b, c) ==
    IF b.spectrum = <<>> THEN Throw ELSE b.spectrum[(c % Len(b.spectrum)) + 1]

(***************************************************************************)
(* State                                                                   *)
(***************************************************************************)
VARIABLES
    pool,                \* the buffers the caller holds
    cur,                 \* index in pool of the buffer of the running/last call
    callsLeft,           \* calls the caller still makes
    pc,                  \* "idle" | "detectKey" | "detectTuningReference" | ...
    thrown,              \* an exception left an estimator
    returns,             \* the calls completed so far: estimator, buffer, value
    meydaAudioContext,   \* (Meyda as any).audioContext
    i,                   \* detectKey: loop variable (sample offset)
    totalChroma,         \* detectKey: Float32Array(12) accumulator
    frames,              \* detectKey: frames accumulated
    bestCorrelation,     \* detectKey: best score at return
    keyResult,           \* detectKey: returned string ("none" before a return)
    keyExtracts,         \* detectKey: Meyda.extract calls of the call
    chunkI,              \* detectTuningReference: loop variable i
    totalCentsDeviation, \* detectTuningReference: sum, in cents * 2^LogBits
    validChunks,         \* detectTuningReference: chunks above the threshold
    refResult,           \* detectTuningReference: returned value
    refPath,             \* detectTuningReference: which return statement ran
    refExtracts,         \* detectTuningReference: Meyda.extract calls of the call
    fnArgs,              \* rotate / correlate called directly: the arguments
    fnResult,            \* rotate / correlate called directly: the results
    audio,               \* the AudioService instance and its Tone.js nodes
    now,                 \* Tone.now(), in time units
    timers               \* setInterval timers: the time each is due next

callVars == <<pool, cur, callsLeft, pc, thrown, returns, meydaAudioContext>>
keyVars == <<i, totalChroma, frames, bestCorrelation, keyResult, keyExtracts>>
refVars == <<chunkI, totalCentsDeviation, validChunks, refResult, refPath,
             refExtracts>>
fnVars == <<fnArgs, fnResult>>
audioVars == <<audio, now, timers>>
vars == <<callVars, keyVars, refVars, fnVars, audioVars>>

Buf == pool[cur]

Returned(op, value) == Append(returns, [op |-> op, buf |-> cur, value |-> value])

(***************************************************************************)
(* detectKey                                                               *)
(***************************************************************************)
\* new Float32Array(12).fill(0)
NewTotalChroma == Vec([k \in 1..NumPitchClasses |-> 0], ChromaDen)

\* let frames = 0
NewFrames == 0

\* the try { ... } catch (e) { console.warn(...) } around Meyda.extract
KeyCatchesExtractError == TRUE

\* if (features): an array, even an empty one, is truthy
Truthy(outcome) == outcome.kind = "array"

\* for (k = 0; k < 12; k++) totalChroma[k] += chroma[k]
AddChroma(total, chroma) ==
    [num |-> [k \in 1..NumPitchClasses |->
                 IF Defined(total, k) /\ Defined(chroma, k)
                 THEN total.num[k] + chroma.num[k] ELSE 0],
     den |-> total.den,
     nan |-> {k \in 1..NumPitchClasses : ~(Defined(total, k) /\ Defined(chroma, k))}]

\* i < endSample - bufferSize
KeyLoopCondition(b, start) == start < EndSample(b) - bufferSize

DetectKeyBegin(b) ==
    /\ pc = "idle"
    /\ callsLeft > 0
    /\ b \in 1..Len(pool)
    /\ cur' = b
    /\ callsLeft' = callsLeft - 1
    /\ pc' = "detectKey"
    /\ meydaAudioContext' = "rawContext"
    /\ i' = SafeStart(pool[b])
    /\ totalChroma' = NewTotalChroma
    /\ frames' = NewFrames
    /\ keyExtracts' = 0
    /\ bestCorrelation' = NegInfinity
    /\ keyResult' = "none"
    /\ UNCHANGED <<audioVars, pool, thrown, returns, refVars, fnVars>>

\* one iteration of the frame loop
DetectKeyFrame ==
    /\ pc = "detectKey"
    /\ KeyLoopCondition(Buf, i)
    /\ IF SliceLength(Buf, i, bufferSize) < bufferSize
       THEN \* break
            /\ pc' = "detectKeyBreak"
            /\ UNCHANGED <<i, totalChroma, frames, keyExtracts, thrown, keyResult,
                           returns>>
       ELSE LET features == ExtractChroma(Buf, i)
            IN  /\ keyExtracts' = keyExtracts + 1
                /\ IF features.kind = "throw" /\ ~KeyCatchesExtractError
                   THEN /\ pc' = "idle"
                        /\ thrown' = TRUE
                        /\ keyResult' = "exception"
                        /\ returns' = Returned("detectKey", "exception")
                        /\ UNCHANGED <<i, totalChroma, frames>>
                   ELSE /\ pc' = pc
                        /\ i' = i + hopSize
                        /\ totalChroma' = IF Truthy(features)
                                          THEN AddChroma(totalChroma, features.v)
                                          ELSE totalChroma
                        /\ frames' = IF Truthy(features) THEN frames + 1 ELSE frames
                        /\ UNCHANGED <<thrown, keyResult, returns>>
    /\ UNCHANGED <<audioVars, pool, cur, callsLeft, meydaAudioContext, bestCorrelation,
                   refVars, fnVars>>

\* after the loop: "Unknown", or the best of the 24 candidates
DetectKeyReturn ==
    /\ \/ pc = "detectKey" /\ ~KeyLoopCondition(Buf, i)
       \/ pc = "detectKeyBreak"
    /\ LET best == IF frames = 0
                   THEN [bestCorrelation |-> NegInfinity, bestKey |-> "Unknown"]
                   ELSE SelectKey(AvgChroma(totalChroma, frames))
       IN  /\ keyResult' = best.bestKey
           /\ bestCorrelation' = best.bestCorrelation
           /\ returns' = Returned("detectKey", best.bestKey)
    /\ pc' = "idle"
    /\ UNCHANGED <<audioVars, pool, cur, callsLeft, thrown, meydaAudioContext, i, totalChroma,
                   frames, keyExtracts, refVars, fnVars>>

(***************************************************************************)
(* detectTuningReference                                                   *)
(***************************************************************************)
\* let totalCentsDeviation = 0
\* an accumulator kept from the previous call
StaleTotalCentsDeviation == totalCentsDeviation

NewTotalCentsDeviation == 0

\* let validChunks = 0
NewValidChunks == 0

\* the try { ... } catch (e) { /* ignore */ } around the chunk analysis
TuningCatchesExtractError == TRUE

\* if (start + fftSize > channelData.length) break
\* a bounds test on the start of the chunk only
ChunkStartOutOfBounds(b, start) == start > b.length

\* a bounds test that also rejects the chunk ending at the last sample
ChunkTouchesEnd(b, start) == start + fftSize >= b.length

ChunkOutOfBounds(b, start) == start + fftSize > b.length

\* the loop ends at i = chunksToAnalyze or at the break
TuningLoopEnds(b, c) == c >= chunksToAnalyze \/ ChunkOutOfBounds(b, c * Step(b))

DetectTuningBegin(b) ==
    /\ pc = "idle"
    /\ callsLeft > 0
    /\ b \in 1..Len(pool)
    /\ cur' = b
    /\ callsLeft' = callsLeft - 1
    /\ pc' = "detectTuningReference"
    /\ meydaAudioContext' = "rawContext"
    /\ chunkI' = 0
    /\ totalCentsDeviation' = NewTotalCentsDeviation
    /\ validChunks' = NewValidChunks
    /\ refExtracts' = 0
    /\ refResult' = NoHz
    /\ refPath' = "none"
    /\ UNCHANGED <<audioVars, pool, thrown, returns, keyVars, fnVars>>

\* one iteration of the chunk loop
DetectTuningChunk ==
    /\ pc = "detectTuningReference"
    /\ ~TuningLoopEnds(Buf, chunkI)
    /\ LET rawSpectrum == ExtractSpectrum(Buf, chunkI)
           peak == FindPeak(rawSpectrum.v)
           valid == Truthy(rawSpectrum) /\ AboveSilence(peak.maxVal)
       IN  /\ refExtracts' = refExtracts + 1
           /\ IF rawSpectrum.kind = "throw" /\ ~TuningCatchesExtractError
              THEN /\ pc' = "idle"
                   /\ thrown' = TRUE
                   /\ refResult' = [kind |-> "exception"]
                   /\ returns' = Returned("detectTuningReference",
                                           [kind |-> "exception"])
                   /\ UNCHANGED <<chunkI, totalCentsDeviation, validChunks>>
              ELSE /\ pc' = pc
                   /\ chunkI' = chunkI + 1
                   /\ totalCentsDeviation' =
                          IF valid
                          THEN totalCentsDeviation
                               + Deviation(peak.maxBin, Buf.sampleRate)
                          ELSE totalCentsDeviation
                   /\ validChunks' = IF valid THEN validChunks + 1 ELSE validChunks
                   /\ UNCHANGED <<thrown, refResult, returns>>
    /\ UNCHANGED <<audioVars, pool, cur, callsLeft, meydaAudioContext, refPath, keyVars, fnVars>>

\* after the loop: 440, or the rounded reference of the average deviation
DetectTuningReturn ==
    /\ pc = "detectTuningReference"
    /\ TuningLoopEnds(Buf, chunkI)
    /\ LET ref == IF NoValidChunks(validChunks)
                  THEN Hz(A4Hz)
                  ELSE RoundedRef(totalCentsDeviation, validChunks)
       IN  /\ refResult' = ref
           /\ refPath' = IF NoValidChunks(validChunks) THEN "default" ELSE "converted"
           /\ returns' = Returned("detectTuningReference", ref)
    /\ pc' = "idle"
    /\ UNCHANGED <<audioVars, pool, cur, callsLeft, thrown, meydaAudioContext, chunkI,
                   totalCentsDeviation, validChunks, refExtracts, keyVars, fnVars>>

(***************************************************************************)
(* AudioService.  Time (Tone.now(), startTimestamp) is counted in time     *)
(* units; a rate is held as its numerator over RateDen, and a position in  *)
(* the file (pausedAt, currentTime, duration) in 1/RateDen of a time unit, *)
(* so that (now - startTimestamp) * playbackRate is exact.                 *)
(***************************************************************************)
RateDen == 2
TickPeriod == 2          \* setInterval(..., 50): a time unit is 25 ms

\* pitch shifts a whole number of octaves, where Math.pow(2, semitones / 12)
\* is exact
Semitones == {-12, 0, 12}

\* Math.pow(2, semitones / 12)
Pow2(semitones) ==
    IF semitones >= 0 THEN RateDen * 2^(semitones \div 12)
    ELSE RateDen \div 2^((-semitones) \div 12)

\* the fields after the constructor; player and pitchShift are 0 for null,
\* else the number of the node (counted from the first load)
NewAudioService ==
    [player |-> 0, pitchShift |-> 0, buffer |-> 0,
     isPlaying |-> FALSE, isLoaded |-> FALSE, duration |-> 0, currentTime |-> 0,
     isBypassed |-> FALSE, preserveTempo |-> FALSE, currentSemitones |-> 0,
     startTimestamp |-> 0, pausedAt |-> 0, playbackRate |-> RateDen,
     playerStarted |-> FALSE,           \* this.player.state = "started"
     playerPlaybackRate |-> RateDen,    \* this.player.playbackRate
     playerOutputs |-> {},              \* what this.player is connected to
     pitchShiftPitch |-> 0]             \* this.pitchShift.pitch

\* player.disconnect() / player.connect(node) / player.toDestination()
Disconnect(outputs) == {}
Connect(outputs, node) == outputs \cup {node}

\* a rate that ignores the preserve-tempo switch
NewRateIgnoringTempo(isGranular, isBypassed, semitones) ==
    IF ~isBypassed THEN Pow2(semitones) ELSE RateDen

\* let newRate = 1; if (!isGranular && !this.isBypassed()) newRate = ...
NewRate(isGranular, isBypassed, semitones) ==
    IF ~isGranular /\ ~isBypassed THEN Pow2(semitones) ELSE RateDen

\* a checkpoint that leaves startTimestamp as it was
CheckpointKeepingStart(a, t) ==
    IF a.isPlaying
    THEN [a EXCEPT !.pausedAt = @ + (t - a.startTimestamp) * a.playbackRate]
    ELSE a

\* Checkpoint time if playing
Checkpoint(a, t) ==
    IF a.isPlaying
    THEN [a EXCEPT !.pausedAt = @ + (t - a.startTimestamp) * a.playbackRate,
                   !.startTimestamp = t]
    ELSE a

\* updatePitchProcessing() on fields a at time t
UpdatePitchProcessing(a, t) ==
    IF a.player = 0 \/ a.pitchShift = 0 THEN a
    ELSE LET semitones == IF a.isBypassed THEN 0 ELSE a.currentSemitones
             isGranular == a.preserveTempo
             c == Checkpoint(a, t)
             newRate == NewRate(isGranular, a.isBypassed, semitones)
         IN  IF isGranular /\ ~a.isBypassed
             THEN [c EXCEPT !.playbackRate = newRate,
                            !.playerPlaybackRate = newRate,
                            !.pitchShiftPitch = semitones,
                            !.playerOutputs = Connect(Disconnect(@), "pitchShift")]
             ELSE [c EXCEPT !.playbackRate = newRate,
                            !.playerPlaybackRate = newRate,
                            !.playerOutputs = Connect(Disconnect(@), "destination")]

\* setupPlayer(): both nodes are disposed of and made anew; the new player has
\* not been started
SetupPlayer(a, t) ==
    UpdatePitchProcessing(
        [a EXCEPT !.pitchShift = a.player + 1, !.pitchShiftPitch = 0,
                  !.player = a.player + 1, !.playerStarted = FALSE,
                  !.playerPlaybackRate = RateDen, !.playerOutputs = {}],
        t)

\* play()
PlayOn(a, t) ==
    IF a.player = 0 \/ a.isPlaying THEN a
    ELSE [a EXCEPT !.startTimestamp = t, !.playerStarted = TRUE, !.isPlaying = TRUE]

\* pause()
PauseOn(a, t) ==
    IF a.player = 0 \/ ~a.isPlaying THEN a
    ELSE LET playedFor == (t - a.startTimestamp) * a.playbackRate
         IN  [a EXCEPT !.playerStarted = FALSE,
                       !.pausedAt = @ + playedFor,
                       !.isPlaying = FALSE,
                       !.currentTime = a.pausedAt + playedFor]

\* seek(time)
SeekOn(a, time, t) ==
    IF a.player = 0 THEN a
    ELSE LET clamped == Max(0, Min(time, a.duration))
             wasPlaying == a.isPlaying
         IN  IF wasPlaying
             THEN [a EXCEPT !.pausedAt = clamped, !.currentTime = clamped,
                            !.startTimestamp = t, !.playerStarted = TRUE]
             ELSE [a EXCEPT !.pausedAt = clamped, !.currentTime = clamped]

\* the setInterval callback
SyncCurrentTime(a, t) ==
    IF ~a.isPlaying THEN a
    ELSE LET elapsedRealTime == t - a.startTimestamp
             advancedTime == elapsedRealTime * a.playbackRate
             currentPos == a.pausedAt + advancedTime
         IN  IF currentPos >= a.duration
             THEN SeekOn(PauseOn(a, t), 0, t)
             ELSE [a EXCEPT !.currentTime = currentPos]

(***************************************************************************)
(* Inputs                                                                  *)
(***************************************************************************)
MaxHops == 2        \* detectKey buffers reach MaxHops hops past the first frame
MaxSteps == 2       \* detectTuningReference buffers reach MaxSteps + 1 chunks
MaxPeriod == 2      \* the spectra of a buffer repeat with a period up to this
MaxCalls == 3       \* calls the caller makes on its buffers

SampleRates == {44100, 48000}

\* lengths around each frame boundary bufferSize + m * hopSize
KeyLengths ==
    {0} \cup {bufferSize + m * hopSize + d : m \in 0..MaxHops, d \in {-1, 0, 1}}

\* the full-length frames of detectKey's hop grid that fit in the window
FramePositions(n, r) ==
    LET b == [length |-> n, sampleRate |-> r]
        room == EndSample(b) - SafeStart(b) - bufferSize
    IN  IF room < 0 THEN 0 ELSE room \div hopSize + 1

\* lengths from one window up, each longer by a little more than a step
TuningLengths ==
    {0, fftSize - 1}
    \cup {fftSize + c * (fftSize \div chunksToAnalyze + 4) : c \in 0..MaxSteps}

\* the chunks of detectTuningReference's grid that fit in the buffer
ChunkPositions(n) ==
    Cardinality({c \in 0..(chunksToAnalyze - 1) :
                    c * (n \div chunksToAnalyze) + fftSize <= n})

SpectrumLen == fftSize \div 2       \* the primitive returns window/2 bins
EmptySpectrum == Spectrum(0, <<>>)
SilentSpectrum == Spectrum(SpectrumLen, <<>>)
\* a peak of magnitude mag at bin k over a floor of 0
PeakSpectrum(k, mag) == Spectrum(SpectrumLen, k :> mag)

SpectrumOutcomes ==
    {Throw, Null, Array(EmptySpectrum), Array(SilentSpectrum),
     Array(PeakSpectrum(41, 50)), Array(PeakSpectrum(42, SilenceThreshold)),
     Array(PeakSpectrum(42, 80))}

NoChroma == <<>>
NoSpectrum == <<>>

KeyBuffers ==
    UNION {{[length |-> n, sampleRate |-> r, chroma |-> c, spectrum |-> NoSpectrum] :
                c \in [1..FramePositions(n, r) -> ChromaOutcomes]} :
           n \in KeyLengths, r \in {44100}}

TuningBuffers ==
    UNION {{[length |-> n, sampleRate |-> r, chroma |-> NoChroma, spectrum |-> s] :
                s \in [1..Min(ChunkPositions(n), MaxPeriod) -> SpectrumOutcomes]} :
           n \in TuningLengths, r \in SampleRates}

\* buffers for both estimators: shorter than a window, or one window long
ShortBuffer(n) ==
    [length |-> n, sampleRate |-> 44100, chroma |-> NoChroma, spectrum |-> NoSpectrum]
WindowBuffer(c, s) ==
    [length |-> fftSize + 1, sampleRate |-> 44100, chroma |-> <<Array(c)>>,
     spectrum |-> <<Array(s)>>]
BothBuffers ==
    <<ShortBuffer(0), ShortBuffer(fftSize - 1),
      WindowBuffer(MajorChroma, PeakSpectrum(41, 50)),
      WindowBuffer(MajorChroma, PeakSpectrum(42, 80)),
      WindowBuffer(MinorChroma, PeakSpectrum(41, 50)),
      WindowBuffer(MinorChroma, PeakSpectrum(42, 80))>>

\* all samples zero: every frame is the same, and is a frame of zeros
Silent(b) ==
    \E o \in SilentChromaOutcomes : \A j \in 1..Len(b.chroma) : b.chroma[j] = o

InitIdle ==
    /\ cur = 1
    /\ pc = "idle"
    /\ thrown = FALSE
    /\ returns = <<>>
    /\ meydaAudioContext = "unset"
    /\ i = 0
    /\ totalChroma = NewTotalChroma
    /\ frames = 0
    /\ bestCorrelation = NegInfinity
    /\ keyResult = "none"
    /\ keyExtracts = 0
    /\ chunkI = 0
    /\ totalCentsDeviation = 0
    /\ validChunks = 0
    /\ refResult = NoHz
    /\ refPath = "none"
    /\ refExtracts = 0
    /\ audio = NewAudioService
    /\ now = 0
    /\ timers = {}

NoFn ==
    /\ fnArgs = <<>>
    /\ fnResult = <<>>

(***************************************************************************)
(* Specifications                                                          *)
(***************************************************************************)
\* one call of detectKey on one buffer
InitKey ==
    /\ pool \in {<<b>> : b \in KeyBuffers}
    /\ callsLeft = 1
    /\ InitIdle
    /\ NoFn

NextKey ==
    \/ \E b \in 1..Len(pool) : DetectKeyBegin(b)
    \/ DetectKeyFrame
    \/ DetectKeyReturn

SpecKey == InitKey /\ [][NextKey]_vars

\* one call of detectTuningReference on one buffer
InitTuning ==
    /\ pool \in {<<b>> : b \in TuningBuffers}
    /\ callsLeft = 1
    /\ InitIdle
    /\ NoFn

NextTuning ==
    \/ \E b \in 1..Len(pool) : DetectTuningBegin(b)
    \/ DetectTuningChunk
    \/ DetectTuningReturn

SpecTuning == InitTuning /\ [][NextTuning]_vars

\* the caller holds two buffers and calls either estimator on either, in any
\* order; each call runs to its return before the next starts (the estimators
\* contain no await)
InitCalls ==
    /\ pool \in {<<BothBuffers[m], BothBuffers[n]>> :
                     m \in 1..Len(BothBuffers), n \in 1..Len(BothBuffers)}
    /\ \E m, n \in 1..Len(BothBuffers) :
           m <= n /\ pool = <<BothBuffers[m], BothBuffers[n]>>
    /\ callsLeft = MaxCalls
    /\ InitIdle
    /\ NoFn

NextCalls ==
    \/ \E b \in 1..Len(pool) : DetectKeyBegin(b)
    \/ DetectKeyFrame
    \/ DetectKeyReturn
    \/ \E b \in 1..Len(pool) : DetectTuningBegin(b)
    \/ DetectTuningChunk
    \/ DetectTuningReturn

SpecCalls == InitCalls /\ [][NextCalls]_vars

\* rotate called on its own
RotateInputs ==
    {MajorVec, MinorVec, TritoneChroma, MinorChroma,
     Vec([k \in 1..NumPitchClasses |-> k], 1)}

InitRotate ==
    /\ pool = <<>>
    /\ callsLeft = 0
    /\ InitIdle
    /\ fnArgs \in {[fn |-> "rotate", arr |-> a, n |-> n] :
                      a \in RotateInputs, n \in 0..NumPitchClasses}
    /\ fnResult = <<>>

RotateCall ==
    /\ fnArgs.fn = "rotate"
    /\ fnResult = <<>>
    /\ fnResult' = <<Rotate(fnArgs.arr, fnArgs.n)>>
    /\ UNCHANGED <<audioVars, callVars, keyVars, refVars, fnArgs>>

SpecRotate == InitRotate /\ [][RotateCall]_vars

\* correlate called on its own, both ways round
CorrelateInputs ==
    {MajorVec, MinorVec, Rotate(MajorVec, 1), Rotate(MinorVec, 9), TritoneChroma,
     ZeroChroma, Vec([k \in 1..NumPitchClasses |-> k], 1),
     Vec([k \in 1..NumPitchClasses |-> IF k = 1 THEN 1 ELSE 0], 1)}

InitCorrelate ==
    /\ pool = <<>>
    /\ callsLeft = 0
    /\ InitIdle
    /\ fnArgs \in {[fn |-> "correlate", x |-> x, y |-> y] :
                      x \in CorrelateInputs, y \in CorrelateInputs}
    /\ fnResult = <<>>

CorrelateCall ==
    /\ fnArgs.fn = "correlate"
    /\ fnResult = <<>>
    /\ fnResult' = <<Correlate(fnArgs.x, fnArgs.y), Correlate(fnArgs.y, fnArgs.x)>>
    /\ UNCHANGED <<audioVars, callVars, keyVars, refVars, fnArgs>>

SpecCorrelate == InitCorrelate /\ [][CorrelateCall]_vars

(***************************************************************************)
(* detectTuningReference on tones: buffers whose every window holds one    *)
(* spectral peak                                                           *)
(***************************************************************************)
\* the bin nearest to f Hz at sample rate r, where the amplitude spectrum of
\* a pure sine tone of f Hz has its maximum
ToneBin(f, r) == (2 * f * fftSize + r) \div (2 * r)

ToneMag == 50 * MagDen

\* the amplitude spectrum of a window of a pure sine tone of f Hz: its main
\* lobe, highest at the nearest bin
ToneSpectrum(f, r) ==
    LET k == ToneBin(f, r)
    IN  Spectrum(SpectrumLen,
                 [j \in {k - 1, k, k + 1} \cap (0..(SpectrumLen - 1)) |->
                     IF j = k THEN ToneMag ELSE ToneMag \div 2])

ToneFrequencies == {220, 432, 440, 444, 880, 16000}

\* lengths of one window and more
ToneLengths ==
    {fftSize + c * (fftSize \div chunksToAnalyze + 4) : c \in 0..MaxSteps}

ToneBuffers ==
    {[length |-> n, sampleRate |-> r, chroma |-> NoChroma,
      spectrum |-> <<Array(ToneSpectrum(f, r))>>] :
        f \in ToneFrequencies, r \in SampleRates, n \in ToneLengths}

\* one window with its peak at any bin the primitive returns from the
\* low-frequency cutoff up
PeakBuffers ==
    {[length |-> fftSize, sampleRate |-> r, chroma |-> NoChroma,
      spectrum |-> <<Array(PeakSpectrum(k, ToneMag))>>] :
        k \in LowCutBin..(SpectrumLen - 1), r \in SampleRates}

\* two chunks with peaks at neighbouring bins around A4
MixedBins == 39..46
MixedBuffers ==
    {[length |-> fftSize + (fftSize \div chunksToAnalyze + 4), sampleRate |-> 44100,
      chroma |-> NoChroma,
      spectrum |-> <<Array(PeakSpectrum(a, ToneMag)), Array(PeakSpectrum(b, ToneMag))>>] :
        a \in MixedBins, b \in MixedBins}

InitPeaks ==
    /\ pool \in {<<b>> : b \in ToneBuffers \cup PeakBuffers \cup MixedBuffers}
    /\ callsLeft = 1
    /\ InitIdle
    /\ NoFn

NextPeaks ==
    \/ \E b \in 1..Len(pool) : DetectTuningBegin(b)
    \/ DetectTuningChunk
    \/ DetectTuningReturn

SpecPeaks == InitPeaks /\ [][NextPeaks]_vars

(***************************************************************************)
(* detectTuningReference on long buffers: up to all 50 chunks fit          *)
(***************************************************************************)
ChunkLengths ==
    {0, fftSize - 1, fftSize, fftSize + 1, 2 * fftSize, 100000, 202399, 204799,
     204800, 441000}

ChunkBuffers ==
    {[length |-> n, sampleRate |-> 44100, chroma |-> NoChroma, spectrum |-> <<s>>] :
        n \in ChunkLengths, s \in {Null, Array(PeakSpectrum(41, ToneMag))}}

InitChunks ==
    /\ pool \in {<<b>> : b \in ChunkBuffers}
    /\ callsLeft = 1
    /\ InitIdle
    /\ NoFn

NextChunks ==
    \/ \E b \in 1..Len(pool) : DetectTuningBegin(b)
    \/ DetectTuningChunk
    \/ DetectTuningReturn

SpecChunks == InitChunks /\ [][NextChunks]_vars

(***************************************************************************)
(* detectKey on buffers around and beyond 30 seconds, at 8000 Hz           *)
(***************************************************************************)
LowSampleRate == 8000

WindowLengths ==
    {0, bufferSize, bufferSize + hopSize + 1}
    \cup {MaxSeconds * LowSampleRate + d : d \in {-1, 0, 1, 2, hopSize - 1}}
    \cup {2 * MaxSeconds * LowSampleRate}

\* every frame of the buffer has the same chroma outcome
WindowBuffers ==
    {[length |-> n, sampleRate |-> LowSampleRate,
      chroma |-> [j \in 1..FramePositions(n, LowSampleRate) |-> c],
      spectrum |-> NoSpectrum] :
        n \in WindowLengths, c \in {Null, Throw, Array(ZeroChroma)}}

InitWindow ==
    /\ pool \in {<<b>> : b \in WindowBuffers}
    /\ callsLeft = 1
    /\ InitIdle
    /\ NoFn

NextWindow ==
    \/ \E b \in 1..Len(pool) : DetectKeyBegin(b)
    \/ DetectKeyFrame
    \/ DetectKeyReturn

SpecWindow == InitWindow /\ [][NextWindow]_vars

(***************************************************************************)
(* AudioService: user calls, timer ticks and the passing of time           *)
(***************************************************************************)
MaxTime == 4        \* Tone.now() runs from 0 to MaxTime
MaxLoads == 2       \* files loaded

FileDurations == {3, 8}         \* buffer.duration of the files, as positions
SeekTimes == {-1, 0, 2, 9}      \* arguments of seek, as positions

\* loadAudio(file), from its last await on: the file decodes to a buffer of
\* duration d
LoadAudio(d) ==
    /\ audio.player < MaxLoads
    /\ LET reset == [audio EXCEPT !.buffer = d, !.pausedAt = 0, !.currentTime = 0]
           ready == SetupPlayer(reset, now)
       IN  audio' = [ready EXCEPT !.duration = d, !.isLoaded = TRUE]
    /\ timers' = timers \cup {now + TickPeriod}
    /\ UNCHANGED <<now, callVars, keyVars, refVars, fnVars>>

Play ==
    /\ audio' = PlayOn(audio, now)
    /\ UNCHANGED <<now, timers, callVars, keyVars, refVars, fnVars>>

Pause ==
    /\ audio' = PauseOn(audio, now)
    /\ UNCHANGED <<now, timers, callVars, keyVars, refVars, fnVars>>

Seek(time) ==
    /\ audio' = SeekOn(audio, time, now)
    /\ UNCHANGED <<now, timers, callVars, keyVars, refVars, fnVars>>

SetPitchShift(semitones) ==
    /\ audio' = UpdatePitchProcessing([audio EXCEPT !.currentSemitones = semitones], now)
    /\ UNCHANGED <<now, timers, callVars, keyVars, refVars, fnVars>>

SetPreserveTempo(preserve) ==
    /\ audio' = UpdatePitchProcessing([audio EXCEPT !.preserveTempo = preserve], now)
    /\ UNCHANGED <<now, timers, callVars, keyVars, refVars, fnVars>>

ToggleBypass ==
    /\ audio' = UpdatePitchProcessing([audio EXCEPT !.isBypassed = ~audio.isBypassed], now)
    /\ UNCHANGED <<now, timers, callVars, keyVars, refVars, fnVars>>

\* a timer set by loadAudio fires when it is due, and is due again a period
\* later
Tick(due) ==
    /\ due \in timers
    /\ due <= now
    /\ audio' = SyncCurrentTime(audio, now)
    /\ timers' = (timers \ {due}) \cup {now + TickPeriod}
    /\ UNCHANGED <<now, callVars, keyVars, refVars, fnVars>>

\* time passes, but not beyond a timer that is due
Advance ==
    /\ now < MaxTime
    /\ \A due \in timers : due > now
    /\ now' = now + 1
    /\ UNCHANGED <<audio, timers, callVars, keyVars, refVars, fnVars>>

InitAudio ==
    /\ pool = <<>>
    /\ callsLeft = 0
    /\ InitIdle
    /\ NoFn

NextAudio ==
    \/ \E d \in FileDurations : LoadAudio(d)
    \/ Play
    \/ Pause
    \/ \E time \in SeekTimes : Seek(time)
    \/ \E semitones \in Semitones : SetPitchShift(semitones)
    \/ \E preserve \in BOOLEAN : SetPreserveTempo(preserve)
    \/ ToggleBypass
    \/ \E due \in timers : Tick(due)
    \/ Advance

SpecAudio == InitAudio /\ [][NextAudio]_vars

(***************************************************************************)
(* PitchShifterComponent.calculateKeyShift.  A string is held as the       *)
(* sequence of its characters, so that split(' ') is computed.             *)
(***************************************************************************)
\* readonly KEYS = ['C', 'C#', 'D', ...] of the component
ComponentKEYS ==
    <<<<"C">>, <<"C", "#">>, <<"D">>, <<"D", "#">>, <<"E">>, <<"F">>, <<"F", "#">>,
      <<"G">>, <<"G", "#">>, <<"A">>, <<"A", "#">>, <<"B">>>>

\* key.split(' ')[0]
FirstWord(key) ==
    LET spaces == {k \in 1..Len(key) : key[k] = " "}
    IN  IF spaces = {} THEN key ELSE SubSeq(key, 1, SetMin(spaces) - 1)

\* arr.indexOf(x): the first index, from 0, or -1
IndexOf(arr, x) ==
    LET found == {k \in 1..Len(arr) : arr[k] = x}
    IN  IF found = {} THEN -1 ELSE SetMin(found) - 1

\* a difference left as it is
NoShortestPath(diff) == diff

\* if (diff > 6) diff -= 12; if (diff < -6) diff += 12;
ShortestPath(diff) ==
    LET wrapped == IF diff > 6 THEN diff - 12 ELSE diff
    IN  IF wrapped < -6 THEN wrapped + 12 ELSE wrapped

CalculateKeyShift(fromKey, toKey) ==
    IF fromKey = <<>> \/ toKey = <<>> THEN 0
    ELSE LET fromIndex == IndexOf(ComponentKEYS, FirstWord(fromKey))
             toIndex == IndexOf(ComponentKEYS, FirstWord(toKey))
         IN  IF fromIndex = -1 \/ toIndex = -1 THEN 0
             ELSE ShortestPath(toIndex - fromIndex)

\* the keys passed: the 24 key names, the bare roots, and strings that name
\* no key ("", "Unknown", " Major", "H Major", "c Major", "Cb Major", "C#m")
KeyTexts ==
    {ComponentKEYS[k] \o w : k \in 1..Len(ComponentKEYS),
        w \in {<<>>, <<" ", "M", "a", "j", "o", "r">>, <<" ", "M", "i", "n", "o", "r">>}}
    \cup {<<>>, <<"U", "n", "k", "n", "o", "w", "n">>, <<" ", "M", "a", "j", "o", "r">>,
          <<"H", " ", "M", "a", "j", "o", "r">>, <<"c", " ", "M", "a", "j", "o", "r">>,
          <<"C", "b", " ", "M", "a", "j", "o", "r">>, <<"C", "#", "m">>}

InitKeyShift ==
    /\ pool = <<>>
    /\ callsLeft = 0
    /\ InitIdle
    /\ fnArgs \in {[fn |-> "calculateKeyShift", fromKey |-> f, toKey |-> t] :
                      f \in KeyTexts, t \in KeyTexts}
    /\ fnResult = <<>>

KeyShiftCall ==
    /\ fnArgs.fn = "calculateKeyShift"
    /\ fnResult = <<>>
    /\ fnResult' = <<CalculateKeyShift(fnArgs.fromKey, fnArgs.toKey)>>
    /\ UNCHANGED <<audioVars, callVars, keyVars, refVars, fnArgs>>

SpecKeyShift == InitKeyShift /\ [][KeyShiftCall]_vars

(***************************************************************************)
(* Claims                                                                  *)
(***************************************************************************)
KeyReturned == pc = "idle" /\ keyResult # "none"
RefReturned == pc = "idle" /\ refResult # NoHz

\* the 24 strings "<PitchClass> Major" / "<PitchClass> Minor"
KeyStrings ==
    {KEYS[k] \o " Major" : k \in 1..Len(KEYS)}
    \cup {KEYS[k] \o " Minor" : k \in 1..Len(KEYS)}

\* C1: the value detectKey returns is "Unknown" or one of the 24 key strings,
\* never any other string (in particular never the empty string).
C1_ReturnsKeyOrUnknown ==
    KeyReturned => keyResult \in KeyStrings \cup {"Unknown"}

\* the chunk's spectrum primitive failed, or every bin of the spectrum it
\* returned is below the silence threshold
QuietOrFailed(outcome) ==
    \/ outcome.kind # "array"
    \/ \A k \in DOMAIN outcome.v.bins : outcome.v.bins[k] < SilenceThreshold

\* C2: detectTuningReference returns exactly 440 whenever zero chunks are
\* valid, that is whenever every analysed chunk is below the silence
\* threshold or had its spectrum primitive fail; the averaging and conversion
\* are reached only with at least one valid chunk.
C2_DefaultWithoutValidChunk ==
    RefReturned =>
        /\ validChunks = 0 => refResult = Hz(440) /\ refPath = "default"
        /\ (\A c \in 0..(chunkI - 1) : QuietOrFailed(ExtractSpectrum(Buf, c)))
               => validChunks = 0 /\ refResult = Hz(440)
        /\ refPath = "converted" => validChunks >= 1

\* C2 witness: two chunks were analysed, one failed and one was silent, and
\* the call returned by the default path
C2_Witness ==
    /\ RefReturned
    /\ refPath = "default"
    /\ chunkI >= 2
    /\ \E c \in 0..(chunkI - 1) : ExtractSpectrum(Buf, c) = Throw
    /\ \E c \in 0..(chunkI - 1) : ExtractSpectrum(Buf, c) = Array(SilentSpectrum)

ShortOf(b) == pool[b].length < fftSize

\* C3: on a buffer shorter than one analysis window (length < 4096, also
\* length 0) detectTuningReference returns 440 and detectKey returns
\* "Unknown", neither calls its primitive, and neither throws.
C3_ShortBufferDefaults ==
    /\ \A r \in 1..Len(returns) :
          ShortOf(returns[r].buf) =>
              /\ returns[r].op = "detectKey" => returns[r].value = "Unknown"
              /\ returns[r].op = "detectTuningReference"
                     => returns[r].value = Hz(440)
    /\ (pc \in {"detectKey", "detectKeyBreak"} /\ ShortOf(cur)) => keyExtracts = 0
    /\ (pc = "detectTuningReference" /\ ShortOf(cur)) => refExtracts = 0
    /\ (pc = "idle" /\ returns # <<>> /\ ShortOf(cur))
           => (returns[Len(returns)].op = "detectKey" => keyExtracts = 0)
              /\ (returns[Len(returns)].op = "detectTuningReference"
                     => refExtracts = 0)
    /\ ShortOf(cur) => ~thrown

\* C3 witness: both estimators have returned for a buffer of 4095 samples
C3_Witness ==
    \E q, r \in 1..Len(returns) :
        /\ returns[q].buf = returns[r].buf
        /\ pool[returns[q].buf].length = fftSize - 1
        /\ returns[q] = [op |-> "detectKey", buf |-> returns[q].buf,
                         value |-> "Unknown"]
        /\ returns[r] = [op |-> "detectTuningReference", buf |-> returns[r].buf,
                         value |-> Hz(440)]

\* C4: for a silent buffer with at least one analysed frame detectKey returns
\* "Unknown" (a correlation with a zero denominator matches nothing).
C4_SilentIsUnknown ==
    (KeyReturned /\ Silent(Buf) /\ frames >= 1) => keyResult = "Unknown"

\* the primitive threw, or returned nothing, or returned an empty array
FailedExtract(outcome) ==
    \/ outcome.kind \in {"throw", "null"}
    \/ outcome.kind = "array" /\ Len(outcome.v.num) = 0

\* C5: a frame (chunk) whose primitive throws or returns an empty result is
\* skipped: it adds nothing to the sums, does not raise the count, the loop
\* goes on to the next frame, and nothing is thrown to the caller.
C5_FailedFrameSkipped ==
    [][(pc = "detectKey" /\ KeyLoopCondition(Buf, i)
            /\ FailedExtract(ExtractChroma(Buf, i)))
          => /\ totalChroma' = totalChroma
             /\ frames' = frames
             /\ pc' = "detectKey"
             /\ i' = i + hopSize
             /\ ~thrown']_vars

\* the order the claim gives: all major keys, then all minor keys, tonic
\* ascending from C within a mode
ClaimedOrder ==
    <<[tonic |-> 0, name |-> "C Major"], [tonic |-> 1, name |-> "C# Major"],
      [tonic |-> 2, name |-> "D Major"], [tonic |-> 3, name |-> "D# Major"],
      [tonic |-> 4, name |-> "E Major"], [tonic |-> 5, name |-> "F Major"],
      [tonic |-> 6, name |-> "F# Major"], [tonic |-> 7, name |-> "G Major"],
      [tonic |-> 8, name |-> "G# Major"], [tonic |-> 9, name |-> "A Major"],
      [tonic |-> 10, name |-> "A# Major"], [tonic |-> 11, name |-> "B Major"],
      [tonic |-> 0, name |-> "C Minor"], [tonic |-> 1, name |-> "C# Minor"],
      [tonic |-> 2, name |-> "D Minor"], [tonic |-> 3, name |-> "D# Minor"],
      [tonic |-> 4, name |-> "E Minor"], [tonic |-> 5, name |-> "F Minor"],
      [tonic |-> 6, name |-> "F# Minor"], [tonic |-> 7, name |-> "G Minor"],
      [tonic |-> 8, name |-> "G# Minor"], [tonic |-> 9, name |-> "A Minor"],
      [tonic |-> 10, name |-> "A# Minor"], [tonic |-> 11, name |-> "B Minor"]>>

\* the correlation of the averaged chroma with the q-th key of that order
ClaimedScore(avgChroma, q) ==
    Correlate(avgChroma,
              Rotate(IF q <= NumPitchClasses THEN MajorVec ELSE MinorVec,
                     ClaimedOrder[q].tonic))

ReturnedAvgChroma == AvgChroma(totalChroma, frames)

\* the averaged chroma of the returned call has a correlation with every key
Scorable ==
    /\ KeyReturned
    /\ frames >= 1
    /\ \A q \in 1..Len(ClaimedOrder) :
          ClaimedScore(ReturnedAvgChroma, q).kind = "real"

\* C6: the key returned has the highest correlation of the 24 candidates, and
\* of several candidates with that correlation it is the first in the order
\* C Major, C# Major, ..., B Major, C Minor, ..., B Minor.
C6_FirstHighestWins ==
    Scorable =>
        \E p \in 1..Len(ClaimedOrder) :
            /\ keyResult = ClaimedOrder[p].name
            /\ NumEq(bestCorrelation, ClaimedScore(ReturnedAvgChroma, p))
            /\ \A q \in 1..Len(ClaimedOrder) :
                  ~Greater(ClaimedScore(ReturnedAvgChroma, q), bestCorrelation)
            /\ \A q \in 1..(p - 1) :
                  Greater(bestCorrelation, ClaimedScore(ReturnedAvgChroma, q))

\* C6 witness: two candidates tie for the highest correlation (C Major and
\* F# Major) and the earlier one was returned
C6_Witness ==
    /\ Scorable
    /\ keyResult = "C Major"
    /\ NumEq(ClaimedScore(ReturnedAvgChroma, 1), ClaimedScore(ReturnedAvgChroma, 7))
    /\ NumEq(bestCorrelation, ClaimedScore(ReturnedAvgChroma, 7))

\* the averaged chroma is, element for element, the unrotated major profile
IsMajorProfile(avgChroma) ==
    /\ avgChroma.nan = {}
    /\ Len(avgChroma.num) = Len(MAJOR_PROFILE)
    /\ \A k \in 1..Len(MAJOR_PROFILE) :
          avgChroma.num[k] * ProfileDen = MAJOR_PROFILE[k] * avgChroma.den

\* C7: when the averaged chroma is exactly the unrotated major profile,
\* "C Major" is selected, its correlation is 1.0, and that is strictly greater
\* than the correlation of each of the other 23 candidates.
C7_MajorProfileIsCMajor ==
    (KeyReturned /\ frames >= 1 /\ IsMajorProfile(ReturnedAvgChroma)) =>
        /\ keyResult = "C Major"
        /\ IsOne(bestCorrelation)
        /\ IsOne(ClaimedScore(ReturnedAvgChroma, 1))
        /\ \A q \in 2..Len(ClaimedOrder) :
              Greater(bestCorrelation, ClaimedScore(ReturnedAvgChroma, q))

\* C7 witness: a call returned "C Major" for two frames that average to the
\* major profile
C7_Witness ==
    /\ KeyReturned
    /\ frames = 2
    /\ IsMajorProfile(ReturnedAvgChroma)
    /\ keyResult = "C Major"

\* C8: two calls of the same estimator on the same buffer return the same
\* value, whatever calls were made before or between them.
C8_SameBufferSameResult ==
    \A q, r \in 1..Len(returns) :
        (returns[q].op = returns[r].op /\ pool[returns[q].buf] = pool[returns[r].buf])
            => returns[q].value = returns[r].value

\* C8 witness: detectTuningReference returned the same non-default value twice
\* for one buffer, with a detectKey call on another buffer in between that
\* returned a key
C8_Witness ==
    /\ Len(returns) = 3
    /\ returns[1].op = "detectTuningReference"
    /\ returns[3].op = "detectTuningReference"
    /\ returns[1].buf = returns[3].buf
    /\ returns[2].op = "detectKey"
    /\ returns[2].buf # returns[1].buf
    /\ returns[1].value = returns[3].value
    /\ returns[1].value # Hz(440)
    /\ returns[2].value # "Unknown"

RotateReturned == fnArgs # <<>> /\ fnArgs.fn = "rotate" /\ fnResult # <<>>

\* C9: rotate(p, n) of a 12-element p, n in 0..12, reads only indices 0..11,
\* puts source element (i - n + 12) mod 12 at index i, is a permutation of p,
\* and rotate(p, 12) = rotate(p, 0) = p.
C9_RotateLaw ==
    RotateReturned =>
        LET p == fnArgs.arr
            n == fnArgs.n
            rotated == fnResult[1]
            src(k) == (k - n + 12) % 12
        IN  /\ rotated.nan = {}
            /\ Len(rotated.num) = 12
            /\ \A k \in 0..11 :
                  /\ src(k) \in 0..11
                  /\ rotated.num[k + 1] = p.num[src(k) + 1]
            /\ \A m \in 0..11 : Cardinality({k \in 0..11 : src(k) = m}) = 1
            /\ \A m \in 0..11 :
                  Cardinality({k \in 1..12 : rotated.num[k] = p.num[m + 1]})
                      = Cardinality({k \in 1..12 : p.num[k] = p.num[m + 1]})
            /\ n \in {0, 12} => rotated = p

\* C9 witness: the major profile was rotated by 12 and came back unchanged
C9_Witness ==
    /\ RotateReturned
    /\ fnArgs.n = 12
    /\ fnArgs.arr = MajorVec
    /\ fnResult[1] = MajorVec

CorrelateReturned == fnArgs # <<>> /\ fnArgs.fn = "correlate" /\ fnResult # <<>>

\* the 12 elements are not all equal
NonzeroVariance(v) == \E k \in 2..NumPitchClasses : v.num[k] # v.num[1]

\* C10: correlate(X, Y) = correlate(Y, X) for 12-element vectors X and Y that
\* both have nonzero variance.
C10_CorrelateSymmetric ==
    (CorrelateReturned /\ NonzeroVariance(fnArgs.x) /\ NonzeroVariance(fnArgs.y))
        => NumEq(fnResult[1], fnResult[2])

\* C10 witness: two different vectors of nonzero variance were correlated both
\* ways round, with a correlation that is neither 1 nor -1
C10_Witness ==
    /\ CorrelateReturned
    /\ fnArgs.x = MajorVec
    /\ fnArgs.y = Rotate(MinorVec, 9)
    /\ NumEq(fnResult[1], fnResult[2])
    /\ ~IsOne(fnResult[1])

\* C11: for a pure sine tone of exactly 440 Hz sampled at 44100 Hz, at least
\* one window long and above the silence threshold, detectTuningReference
\* returns 440.
C11_Sine440Returns440 ==
    (/\ RefReturned
     /\ Buf.sampleRate = 44100
     /\ Buf.length >= fftSize
     /\ Buf.spectrum = <<Array(ToneSpectrum(440, 44100))>>)
        => refResult = Hz(440)

\* the largest magnitude, and its first bin, among all bins from the
\* low-frequency cutoff up to the last bin of the spectrum
ClaimedPeak(spectrum) ==
    LET bins == LowCutBin..(spectrum.len - 1)
        top == SetMax({0} \cup {SpectrumAt(spectrum, k) : k \in bins})
    IN  [maxVal |-> top,
         maxBin |-> SetMin({spectrum.len}
                           \cup {k \in bins : SpectrumAt(spectrum, k) = top})]

\* C12: for each chunk the peak search covers every bin from bin 10 up to the
\* last bin of the window/2-long spectrum, so a maximum above the threshold
\* in any of those bins makes the chunk valid with the deviation of that bin.
C12_PeakSearchReachesNyquist ==
    [][(/\ pc = "detectTuningReference"
        /\ ~TuningLoopEnds(Buf, chunkI)
        /\ ExtractSpectrum(Buf, chunkI).kind = "array"
        /\ ClaimedPeak(ExtractSpectrum(Buf, chunkI).v).maxVal > SilenceThreshold)
          => /\ validChunks' = validChunks + 1
             /\ totalCentsDeviation' = totalCentsDeviation
                  + Deviation(ClaimedPeak(ExtractSpectrum(Buf, chunkI).v).maxBin,
                              Buf.sampleRate)]_vars

\* C16: with at least one valid chunk, every chunk's deviation lies in
\* [-50, 50] cents, so does the average, and the value returned is an integer
\* from 427 to 453.
C16_ReferenceInRange ==
    /\ [](/\ -50 * LogOne * validChunks <= totalCentsDeviation
          /\ totalCentsDeviation <= 50 * LogOne * validChunks
          /\ (RefReturned /\ validChunks >= 1)
                => (refResult.kind = "hz" /\ refResult.v \in 427..453))
    /\ [][validChunks' = validChunks + 1
             => /\ totalCentsDeviation' - totalCentsDeviation >= -50 * LogOne
                /\ totalCentsDeviation' - totalCentsDeviation <= 50 * LogOne]_vars

\* C16 witness: two valid chunks, one flat and one sharp of the grid, and a
\* reference returned through the conversion
C16_Witness ==
    /\ RefReturned
    /\ refPath = "converted"
    /\ validChunks = 2
    /\ Deviation(FindPeak(ExtractSpectrum(Buf, 0).v).maxBin, Buf.sampleRate) < -30 * LogOne
    /\ Deviation(FindPeak(ExtractSpectrum(Buf, 1).v).maxBin, Buf.sampleRate) > 5 * LogOne
    /\ refResult.v \in 427..439

\* the frames at safeStart + m * 8192 that do not exceed the window
ClaimedFrames(b) ==
    {m \in 0..(b.length \div hopSize) :
        SafeStart(b) + m * hopSize + bufferSize <= EndSample(b)}

\* C13: every full-length frame at safeStart + m * 8192 with
\* start + 4096 <= endSample is analysed, the one ending exactly at the end of
\* the window included.
C13_EveryFittingFrameAnalysed ==
    (KeyReturned /\ ~thrown) => keyExtracts = Cardinality(ClaimedFrames(Buf))

\* the chunks i * floor(N / 50), i in 0..49, whose window fits in N samples
ClaimedChunks(N) == {c \in 0..49 : c * (N \div 50) + 4096 <= N}

\* C14: the chunks analysed are exactly those at i * floor(N/50), i in 0..49,
\* with start + 4096 <= N: none reads past the end, none that fits is left
\* out, and at most 50 are analysed.
C14_ChunksExactlyThoseFitting ==
    /\ pc = "detectTuningReference"
          => /\ refExtracts = chunkI
             /\ \A c \in 0..(chunkI - 1) : c \in ClaimedChunks(Buf.length)
    /\ RefReturned
          => /\ refExtracts = Cardinality(ClaimedChunks(Buf.length))
             /\ refExtracts <= 50

\* C14 witness: a call analysed all 50 chunks, and the last one ended exactly
\* at the end of the buffer
C14_Witness ==
    /\ RefReturned
    /\ refExtracts = 50
    /\ 49 * (Buf.length \div 50) + 4096 = Buf.length

\* C15: the window [safeStart, endSample) lies in the buffer, is at most 30
\* seconds long, is the whole buffer when that is not longer than 30 seconds
\* and is centred on its midpoint otherwise (to the sample), and every frame
\* analysed lies inside the window.
C15_WindowCentredInBuffer ==
    pool # <<>> =>
        LET N == Buf.length
            W == 30 * Buf.sampleRate
            s == SafeStart(Buf)
            e == EndSample(Buf)
        IN  /\ 0 <= s /\ s <= e /\ e <= N
            /\ e - s <= W
            /\ N <= W => (s = 0 /\ e = N)
            /\ N > W => (e - s = W /\ (N - e) - s \in {0, 1})
            /\ (pc = "detectKey" /\ keyExtracts >= 1)
                  => \A m \in 1..keyExtracts :
                        /\ s <= i - m * hopSize
                        /\ i - m * hopSize + bufferSize <= e

\* C15 witness: a buffer longer than 30 seconds, its window starting after
\* sample 0, with frames analysed up to the last one that fits
C15_Witness ==
    /\ pc = "detectKey"
    /\ Buf.length > 30 * Buf.sampleRate
    /\ SafeStart(Buf) > 0
    /\ keyExtracts >= 20
    /\ i + bufferSize > EndSample(Buf)

\* C17: isPlaying() is true only if the current player, the one made by the
\* latest loadAudio, has been started and not stopped.
C17_PlayingMeansPlayerStarted ==
    audio.isPlaying => (audio.player # 0 /\ audio.playerStarted)

\* C18: the published position currentTime(), and pausedAt, stay within
\* [0, duration()].
C18_PositionWithinFile ==
    audio.isLoaded =>
        /\ 0 <= audio.currentTime /\ audio.currentTime <= audio.duration
        /\ (~audio.isPlaying => (0 <= audio.pausedAt /\ audio.pausedAt <= audio.duration))

\* 2^(semitones / 12) for the whole octaves of Semitones, over RateDen
ClaimedRate(semitones) ==
    CASE semitones = -12 -> RateDen \div 2
      [] semitones = 0 -> RateDen
      [] semitones = 12 -> 2 * RateDen

\* C19: once a file is loaded: bypassed means rate 1 and the player routed to
\* the destination; not bypassed with preserveTempo means rate 1 and the
\* player routed only through the pitch-shift node, whose pitch is
\* currentSemitones; not bypassed without preserveTempo means rate
\* 2^(currentSemitones/12) and the player routed to the destination.  The
\* player is never connected to both.
C19_RateAndRoutingFollowSettings ==
    audio.isLoaded =>
        /\ audio.playerPlaybackRate = audio.playbackRate
        /\ Cardinality(audio.playerOutputs) = 1
        /\ audio.isBypassed
              => /\ audio.playbackRate = RateDen
                 /\ audio.playerOutputs = {"destination"}
        /\ (~audio.isBypassed /\ audio.preserveTempo)
              => /\ audio.playbackRate = RateDen
                 /\ audio.playerOutputs = {"pitchShift"}
                 /\ audio.pitchShiftPitch = audio.currentSemitones
        /\ (~audio.isBypassed /\ ~audio.preserveTempo)
              => /\ audio.playbackRate = ClaimedRate(audio.currentSemitones)
                 /\ audio.playerOutputs = {"destination"}

\* C19 witness: a second file was loaded with the pitch shift, preserve-tempo
\* and bypass all set, and the bypass was then switched off while playing
C19_Witness ==
    /\ audio.isLoaded
    /\ audio.player = 2
    /\ audio.isPlaying
    /\ ~audio.isBypassed
    /\ audio.preserveTempo
    /\ audio.currentSemitones = -12
    /\ audio.pitchShiftPitch = -12
    /\ audio.playerOutputs = {"pitchShift"}

\* the position tracked: pausedAt + (now - startTimestamp) * playbackRate
TrackedPosition(a, t) == a.pausedAt + (t - a.startTimestamp) * a.playbackRate

\* a step that changes the pitch shift, preserve-tempo or bypass
SettingChanges ==
    \/ audio'.currentSemitones # audio.currentSemitones
    \/ audio'.preserveTempo # audio.preserveTempo
    \/ audio'.isBypassed # audio.isBypassed

\* C20: a change of pitch shift, preserve-tempo or bypass while playing leaves
\* pausedAt + (now - startTimestamp) * playbackRate as it was; while not
\* playing it leaves pausedAt and startTimestamp as they were.
C20_RateChangeKeepsPosition ==
    [][SettingChanges
          => /\ audio.isPlaying
                   => TrackedPosition(audio', now') = TrackedPosition(audio, now)
             /\ ~audio.isPlaying
                   => /\ audio'.pausedAt = audio.pausedAt
                      /\ audio'.startTimestamp = audio.startTimestamp
             /\ audio'.isPlaying = audio.isPlaying
             /\ audio'.currentTime = audio.currentTime]_vars

\* C20 witness: the rate was changed to 2 in the middle of playing: the
\* position was checkpointed at the present time, ahead of the one published
C20_Witness ==
    /\ audio.isPlaying
    /\ audio.playerStarted
    /\ audio.startTimestamp = now
    /\ now > 0
    /\ audio.pausedAt > audio.currentTime
    /\ audio.playbackRate = 2 * RateDen

KeyShiftReturned ==
    fnArgs # <<>> /\ fnArgs.fn = "calculateKeyShift" /\ fnResult # <<>>

\* the 12 pitch-class names, as characters
PitchClassNames ==
    <<<<"C">>, <<"C", "#">>, <<"D">>, <<"D", "#">>, <<"E">>, <<"F">>, <<"F", "#">>,
      <<"G">>, <<"G", "#">>, <<"A">>, <<"A", "#">>, <<"B">>>>

\* the pitch classes (from 0) whose name is the root of the key: the whole
\* key, or the part of it before its first space
RootIndices(key) ==
    {k \in 0..11 :
        LET name == PitchClassNames[k + 1]
        IN  \/ key = name
            \/ /\ Len(key) > Len(name)
               /\ SubSeq(key, 1, Len(name)) = name
               /\ key[Len(name) + 1] = " "}

\* C21: calculateKeyShift returns 0 when either key is empty or has a root
\* that is no pitch-class name; otherwise an integer d in -6..6 congruent to
\* index(toRoot) - index(fromRoot) modulo 12, no longer than any other such
\* path, and 0 when both keys are the same.
C21_KeyShiftIsShortestPath ==
    KeyShiftReturned =>
        LET from == RootIndices(fnArgs.fromKey)
            to == RootIndices(fnArgs.toKey)
            d == fnResult[1]
        IN  /\ (from = {} \/ to = {}) => d = 0
            /\ \A f \in from, t \in to :
                  /\ d \in -6..6
                  /\ (d - (t - f)) % 12 = 0
                  /\ \A e \in -11..11 :
                        (e - (t - f)) % 12 = 0
                            => (IF d < 0 THEN -d ELSE d) <= (IF e < 0 THEN -e ELSE e)
            /\ fnArgs.fromKey = fnArgs.toKey => d = 0

\* C21 witness: from "A Major" to "C Minor" the shift is 3 semitones up, not
\* 9 down
C21_Witness ==
    /\ KeyShiftReturned
    /\ fnArgs.fromKey = <<"A", " ", "M", "a", "j", "o", "r">>
    /\ fnArgs.toKey = <<"C", " ", "M", "i", "n", "o", "r">>
    /\ fnResult = <<3>>

=============================================================================
